---- MODULE Spec2Model ----
(***************************************************************************)
(* A model of src/main.py: the launch supervisor (ArizonaLauncher.         *)
(* launch_game and its helpers), the preference store (load_config /       *)
(* save_config), the comment-tolerant codec of #ArizonaPatches.json        *)
(* (read_patches / write_patches) and the roster fetch                     *)
(* (WebViewApp.get_servers).                                               *)
(*                                                                         *)
(* Text is a sequence of one-character strings, so that strip, slicing,    *)
(* escaping, comment removal and parsing are computed and not assumed.     *)
(* Host names and fixed messages nobody slices are one-element sequences.  *)
(***************************************************************************)
EXTENDS Integers, Sequences, FiniteSets, TLC

VARIABLES
    launcherExists,  \* os.path.exists(self.launcher_path)
    config,          \* ArizonaLauncher.config, the preferences in memory
    configFile,      \* config.json on disk
    procs,           \* the OS process table, indexed by pid
    att,             \* the launch threads start_game has created
    started,         \* how many launch threads were created
    ack,             \* what the last start_game call returned
    patchFile,       \* #ArizonaPatches.json on disk
    wr,              \* the write_patches call in progress and its outcome
    rd,              \* the last read_patches call and its outcome
    fetch            \* the last get_servers call: the response and the result

vars == <<launcherExists, config, configFile, procs, att, started, ack,
          patchFile, wr, rd, fetch>>

launchVars == <<launcherExists, config, configFile, procs, att, started, ack>>
patchVars == <<patchFile, wr, rd>>
rosterVars == <<fetch>>

(***************************************************************************)
(* Bounds of the model.                                                    *)
(***************************************************************************)
MaxAttempts == 2     \* launch threads created by start_game
MaxExtra == 2        \* letters a long nickname has beyond the limit

(***************************************************************************)
(* Text helpers.                                                           *)
(***************************************************************************)
Whitespace == {" ", "\t", "\n", "\r"}

Rep(c, n) == [i \in 1..n |-> c]

Letter(i) == IF i % 3 = 1 THEN "a" ELSE IF i % 3 = 2 THEN "B" ELSE "c"

Letters(n) == [i \in 1..n |-> Letter(i)]

Take(s, n) == SubSeq(s, 1, IF Len(s) < n THEN Len(s) ELSE n)

Drop(s, n) == SubSeq(s, n + 1, Len(s))

RECURSIVE LStrip(_)
LStrip(s) ==
    IF s # <<>> /\ Head(s) \in Whitespace THEN LStrip(Tail(s)) ELSE s

RECURSIVE RStrip(_)
RStrip(s) ==
    IF s # <<>> /\ s[Len(s)] \in Whitespace
    THEN RStrip(SubSeq(s, 1, Len(s) - 1))
    ELSE s

\* str.strip()
Strip(s) == RStrip(LStrip(s))

LowerChar(c) ==
    CASE c = "A" -> "a" [] c = "B" -> "b" [] c = "C" -> "c" [] c = "L" -> "l"
      [] c = "R" -> "r" [] c = "Z" -> "z" [] c = "I" -> "i" [] c = "O" -> "o"
      [] c = "N" -> "n" [] c = "U" -> "u" [] c = "H" -> "h" [] c = "E" -> "e"
      [] c = "X" -> "x" [] c = "Y" -> "y"
      [] OTHER -> c

\* str.lower()
Lower(s) == [i \in 1..Len(s) |-> LowerChar(s[i])]

\* needle in hay, for str
Contains(hay, needle) ==
    \E i \in 0..(Len(hay) - Len(needle)) :
        SubSeq(hay, i + 1, i + Len(needle)) = needle

(***************************************************************************)
(* Python values held in the preferences and in a server selection: a key  *)
(* that is missing, None, a str or an int.                                 *)
(***************************************************************************)
Missing == [tag |-> "missing", s |-> <<>>, n |-> 0]
PyNone == [tag |-> "none", s |-> <<>>, n |-> 0]
PyStr(s) == [tag |-> "str", s |-> s, n |-> 0]
PyInt(n) == [tag |-> "int", s |-> <<>>, n |-> n]

\* dict.get(key) and dict.get(key, default)
Get(v) == IF v.tag = "missing" THEN PyNone ELSE v
GetOr(v, default) == IF v.tag = "missing" THEN default ELSE v

(***************************************************************************)
(* ConfigStore.                                                            *)
(***************************************************************************)
EmptyConfig == [isDict |-> TRUE, last_nickname |-> Missing, last_server |-> Missing]

\* A config.json whose JSON value is not an object ([], "x", 5, null).
NonDictConfig == [isDict |-> FALSE, last_nickname |-> Missing, last_server |-> Missing]

OldConfig == [isDict |-> TRUE, last_nickname |-> PyStr(<<"O", "l", "d">>),
              last_server |-> PyInt(15)]

FileAbsent == [state |-> "absent", val |-> EmptyConfig]
FileMalformed == [state |-> "malformed", val |-> EmptyConfig]
FileJson(v) == [state |-> "json", val |-> v]

ConfigFiles == {FileAbsent, FileJson(OldConfig), FileJson(NonDictConfig)}

\* load_config: the parsed document whatever its type, {} when the file is
\* missing or json.load raises.
load_config(file) == IF file.state = "json" THEN file.val ELSE EmptyConfig

\* save_config: open(..., 'w') truncates, json.dump writes; every exception is
\* caught and logged. wrote: the dump completed. A failed save leaves the file as
\* it was (open failed) or cut short (the write failed).
SaveOutcomes(cfg, file) == {FileJson(cfg), file, FileMalformed}

(***************************************************************************)
(* ProcessRegistry: psutil's process table.                                *)
(***************************************************************************)
LauncherName ==
    <<"A", "r", "i", "z", "o", "n", "a", "L", "a", "u", "n", "c", "h", "e", "r",
      "6", "_", "b", "y", "A", "I", "R", ".", "e", "x", "e">>

UpperLauncherName ==
    <<"X", "A", "R", "I", "Z", "O", "N", "A", "L", "A", "U", "N", "C", "H", "E", "R",
      ".", "E", "X", "E">>

OtherName == <<"a", "r", "i", "z", "o", "n", "a", ".", "e", "x", "e">>

\* 'arizonalauncher'
Needle == <<"a", "r", "i", "z", "o", "n", "a", "l", "a", "u", "n", "c", "h", "e", "r">>

Proc(name, hasName, prot) ==
    [name |-> name, hasName |-> hasName, alive |-> TRUE, prot |-> prot, child |-> FALSE]

\* The tables the launcher may start with. A process whose name psutil may not
\* read has name None (hasName = FALSE); prot: kill() raises AccessDenied.
ProcTables ==
    { << Proc(OtherName, TRUE, FALSE), Proc(UpperLauncherName, TRUE, TRUE),
         Proc(LauncherName, TRUE, FALSE) >>,
      << Proc(LauncherName, TRUE, FALSE), Proc(<<>>, FALSE, TRUE),
         Proc(UpperLauncherName, TRUE, FALSE) >> }

MatchesCaseSensitive(p) == Contains(p.name, Needle)

\* 'arizonalauncher' in proc.info['name'].lower()
Matches(p) == Contains(Lower(p.name), Needle)

\* The loop of kill_all_launchers from pid i on, over the processes listed in
\* snapshot. gone: the listed processes that exited by themselves between the
\* listing and their turn (kill() raises NoSuchProcess, which is passed over);
\* AccessDenied is passed over too. A name of None raises AttributeError, which
\* only the outer handler catches: the loop ends there.
\* Returns the table and the pids kill() was called on.
RECURSIVE KillLoop(_, _, _, _, _)
KillLoop(snapshot, table, i, gone, req) ==
    IF i > Len(snapshot) THEN [table |-> table, req |-> req]
    ELSE IF ~snapshot[i].alive THEN KillLoop(snapshot, table, i + 1, gone, req)
    ELSE IF ~snapshot[i].hasName THEN [table |-> table, req |-> req]
    ELSE IF ~Matches(snapshot[i]) THEN KillLoop(snapshot, table, i + 1, gone, req)
    ELSE IF i \notin gone /\ ~snapshot[i].prot
         THEN KillLoop(snapshot, [table EXCEPT ![i].alive = FALSE], i + 1, gone,
                       req \cup {i})
         ELSE KillLoop(snapshot, table, i + 1, gone, req \cup {i})

kill_all_launchers(table, gone) ==
    KillLoop(table,
             [i \in 1..Len(table) |->
                 IF i \in gone THEN [table[i] EXCEPT !.alive = FALSE] ELSE table[i]],
             1, gone, {})

AlivePids(table) == {i \in 1..Len(table) : table[i].alive}

(***************************************************************************)
(* LaunchSupervisor: launch_game, one thread per start_game call.          *)
(***************************************************************************)
NickLimit == 20      \* nickname[:20]
ExcerptLen == 100    \* error_msg[:100]

LauncherPath == <<"~\\AppData\\...\\ArizonaLauncher6_byAIR.exe">>
DefaultIp == <<"payson.arizona-rp.com">>
DefaultPort == 7777

NickEmpty == <<>>
NickBlank == <<" ", "\t">>
NickPadded == <<" ", "a", " ", "b", " ">>
NickAtLimit == Letters(NickLimit)
NickLong == <<" ">> \o Letters(NickLimit + MaxExtra) \o <<" ", " ">>
NickCut == Letters(NickLimit - 1) \o <<" ">> \o Letters(MaxExtra)

\* The nicknames a caller passes: empty, blank, padded, exactly at the limit,
\* padded and beyond the limit, and beyond the limit with a blank at the cut.
Nicknames == {NickEmpty, NickBlank, NickPadded, NickAtLimit, NickLong, NickCut}

\* server_data: None, or the dict the page passes.
NoServer == [isNone |-> TRUE, ip |-> Missing, port |-> Missing, number |-> Missing]
EmptyServer == [isNone |-> FALSE, ip |-> Missing, port |-> Missing, number |-> Missing]
FullServer == [isNone |-> FALSE, ip |-> PyStr(<<"server7.arizona-rp.com">>),
               port |-> PyInt(7007), number |-> PyInt(7)]
NoNumberServer == [isNone |-> FALSE, ip |-> PyStr(<<"10.0.0.1">>),
                   port |-> Missing, number |-> Missing]

ServerChoices == {NoServer, EmptyServer, FullServer, NoNumberServer}

\* The calls of start_game the page makes: every nickname and every server
\* selection occurs in one of them.
Requests ==
    { <<NickEmpty, NoServer>>, <<NickBlank, FullServer>>, <<NickPadded, NoServer>>,
      <<NickAtLimit, EmptyServer>>, <<NickLong, FullServer>>,
      <<NickCut, NoNumberServer>> }

\* The nicknames update_nickname is called with; it stores them as they are.
UpdateNicknames == { <<" ", "N", "e", "w">> }

\* bool(server_data): None and the empty dict are falsy.
Truthy(sd) ==
    ~sd.isNone /\ (sd.ip.tag # "missing" \/ sd.port.tag # "missing"
                   \/ sd.number.tag # "missing")

\* What the spawned process wrote to its standard error, as bytes; "#FF" is a
\* byte that is not UTF-8.
StderrOutputs ==
    { <<>>,
      <<"#FF", "n", "o">>,
      Rep("x", ExcerptLen) \o <<"y", "z">> }

\* bytes.decode('utf-8', errors='ignore')
Decode(bytes) == SelectSeq(bytes, LAMBDA b : b # "#FF")

NoCmd == [path |-> <<>>, h |-> <<>>, p |-> 0, mem |-> 0, n |-> <<>>, flags |-> <<>>]

\* cmd, lines 108-119
Command(nickname, server_ip, server_port) ==
    [path |-> LauncherPath, h |-> server_ip, p |-> server_port, mem |-> 4096,
     n |-> nickname, flags |-> <<"-c", "-arizona", "-x", "-window", "-cdn", "1,1,1">>]

NoResult == [success |-> FALSE, message |-> <<>>, pid |-> 0]

MsgLauncherMissing == <<"Launcher not found: ">> \o LauncherPath
MsgEnterNickname == <<"Enter a nickname">>
MsgLaunchError(text) == <<"Launch error: ">> \o text
MsgUnknownError == <<"Unknown error">>
MsgStarted(nickname, server_ip) ==
    <<"Game starting for ">> \o nickname \o <<" on server ">> \o server_ip

Failure(message) == [success |-> FALSE, message |-> message, pid |-> 0]

IdleAttempt ==
    [pc |-> "Idle", nickname |-> <<>>, server_data |-> NoServer, cmd |-> NoCmd,
     pid |-> 0, result |-> NoResult, events |-> <<>>, kills |-> {},
     stderr |-> <<>>, polled |-> FALSE, running |-> FALSE, handed |-> FALSE,
     saved |-> FALSE]

\* The order of the steps of launch_game after the checks: kill_all_launchers
\* (line 126), Popen (line 130), poll (line 142).
StageAfterSwapped(stage) ==
    CASE stage = "ValidatingInput" -> "Spawning"
      [] stage = "Spawning" -> "ReconcilingProcesses"
      [] stage = "ReconcilingProcesses" -> "ConfirmingLiveness"

StageAfterStuck(stage) ==
    CASE stage = "ValidatingInput" -> "ValidatingInput"
      [] stage = "ReconcilingProcesses" -> "Spawning"
      [] stage = "Spawning" -> "ConfirmingLiveness"

StageAfter(stage) ==
    CASE stage = "ValidatingInput" -> "ReconcilingProcesses"
      [] stage = "ReconcilingProcesses" -> "Spawning"
      [] stage = "Spawning" -> "ConfirmingLiveness"

NicknameInvalidNoStrip(nickname) == nickname = <<>>

\* not nickname or len(nickname.strip()) == 0
NicknameInvalid(nickname) == nickname = <<>> \/ Len(Strip(nickname)) = 0

ValidNicknameCutFirst(nickname) == Strip(Take(nickname, NickLimit))

\* nickname.strip(), then nickname[:20] when longer than 20
ValidNickname(nickname) ==
    LET n == Strip(nickname)
    IN  IF Len(n) > NickLimit THEN Take(n, NickLimit) ELSE n

ServerIp(sd) == IF Truthy(sd) THEN GetOr(sd.ip, PyStr(DefaultIp)).s ELSE DefaultIp
ServerPort(sd) == IF Truthy(sd) THEN GetOr(sd.port, PyInt(DefaultPort)).n ELSE DefaultPort

HandOverAlways(cfg, nickname, sd) ==
    IF ~cfg.isDict THEN [ok |-> FALSE, cfg |-> cfg]
    ELSE [ok |-> TRUE,
          cfg |-> [cfg EXCEPT !.last_nickname = PyStr(nickname),
                              !.last_server = Get(sd.number)]]

\* lines 146-148: the hand-over of the nickname and the server number. Item
\* assignment on a config that is not a dict raises TypeError (ok = FALSE).
HandOver(cfg, nickname, sd) ==
    IF ~cfg.isDict THEN [ok |-> FALSE, cfg |-> cfg]
    ELSE [ok |-> TRUE,
          cfg |-> [cfg EXCEPT !.last_nickname = PyStr(nickname),
                              !.last_server = IF Truthy(sd) THEN Get(sd.number)
                                              ELSE cfg.last_server]]

\* WebViewApp.start_game: creates the thread and returns at once.
Ack == [success |-> TRUE, message |-> <<"Launch started...">>, status |-> "processing"]
NoAck == [success |-> FALSE, message |-> <<>>, status |-> "none"]

start_gameJoined(nickname, server_data) ==
    /\ started < MaxAttempts
    /\ started' = started + 1
    /\ att' = [att EXCEPT ![started + 1] =
                  [IdleAttempt EXCEPT !.pc = "ValidatingInput",
                                      !.nickname = nickname,
                                      !.server_data = server_data]]
    /\ ack' = IF ~launcherExists \/ NicknameInvalid(nickname)
              THEN [success |-> FALSE, message |-> MsgEnterNickname, status |-> "failed"]
              ELSE Ack
    /\ UNCHANGED <<launcherExists, config, configFile, procs>>

start_game(nickname, server_data) ==
    /\ started < MaxAttempts
    /\ started' = started + 1
    /\ att' = [att EXCEPT ![started + 1] =
                  [IdleAttempt EXCEPT !.pc = "ValidatingInput",
                                      !.nickname = nickname,
                                      !.server_data = server_data]]
    /\ ack' = Ack
    /\ UNCHANGED <<launcherExists, config, configFile, procs>>

\* launch_game, lines 83-121: the checks and the command.
Validate(i) ==
    /\ att[i].pc = "ValidatingInput"
    /\ att' = [att EXCEPT ![i] =
          IF ~launcherExists
          THEN [@ EXCEPT !.pc = "Failed", !.result = Failure(MsgLauncherMissing)]
          ELSE IF NicknameInvalid(att[i].nickname)
          THEN [@ EXCEPT !.pc = "Failed", !.result = Failure(MsgEnterNickname)]
          ELSE [@ EXCEPT !.pc = StageAfter("ValidatingInput"),
                         !.cmd = Command(ValidNickname(att[i].nickname),
                                         ServerIp(att[i].server_data),
                                         ServerPort(att[i].server_data))]]
    /\ UNCHANGED <<launcherExists, config, configFile, procs, started, ack>>

\* launch_game, lines 126-127: kill_all_launchers() and the settle.
Reconcile(i) ==
    /\ att[i].pc = "ReconcilingProcesses"
    /\ \E gone \in SUBSET AlivePids(procs) :
          LET r == kill_all_launchers(procs, gone)
          IN  /\ procs' = r.table
              /\ att' = [att EXCEPT ![i].pc = StageAfter("ReconcilingProcesses"),
                                    ![i].kills = r.req,
                                    ![i].events = Append(@, "kill")]
    /\ UNCHANGED <<launcherExists, config, configFile, started, ack>>

\* launch_game, lines 130-136: subprocess.Popen, which returns the process or
\* raises (the handler of line 163).
Spawn(i) ==
    /\ att[i].pc = "Spawning"
    /\ \/ /\ procs' = Append(procs, [Proc(LauncherName, TRUE, FALSE) EXCEPT !.child = TRUE])
          /\ att' = [att EXCEPT ![i].pc = StageAfter("Spawning"),
                                ![i].pid = Len(procs) + 1,
                                ![i].events = Append(@, "spawn")]
       \/ /\ att' = [att EXCEPT ![i].pc = "Failed",
                                ![i].result = Failure(MsgLaunchError(<<"OSError">>))]
          /\ UNCHANGED procs
    /\ UNCHANGED <<launcherExists, config, configFile, started, ack>>

\* A spawned launcher exits by itself.
ChildExit(pid) ==
    /\ pid \in 1..Len(procs)
    /\ procs[pid].alive /\ procs[pid].child
    /\ procs' = [procs EXCEPT ![pid].alive = FALSE]
    /\ UNCHANGED <<launcherExists, config, configFile, att, started, ack>>

ConfirmHandsOverFirst(i) ==
    /\ att[i].pc = "ConfirmingLiveness"
    /\ LET h == HandOver(config, att[i].cmd.n, att[i].server_data)
           running == procs[att[i].pid].alive
       IN  /\ config' = h.cfg
           /\ configFile' \in SaveOutcomes(h.cfg, configFile)
           /\ att' = [att EXCEPT
                 ![i].pc = IF running /\ h.ok THEN "Succeeded" ELSE "Failed",
                 ![i].events = Append(@, "poll"),
                 ![i].polled = TRUE,
                 ![i].running = running,
                 ![i].handed = h.ok,
                 ![i].result =
                     IF running /\ h.ok
                     THEN [success |-> TRUE,
                           message |-> MsgStarted(att[i].cmd.n, att[i].cmd.h),
                           pid |-> att[i].pid]
                     ELSE Failure(MsgLaunchError(MsgUnknownError))]
    /\ UNCHANGED <<launcherExists, procs, started, ack>>

\* launch_game, lines 139-165: the poll after the wait, and its two branches.
Confirm(i) ==
    /\ att[i].pc = "ConfirmingLiveness"
    /\ IF procs[att[i].pid].alive
       THEN LET h == HandOver(config, att[i].cmd.n, att[i].server_data)
            IN  IF h.ok
                THEN /\ config' = h.cfg
                     /\ configFile' \in SaveOutcomes(h.cfg, configFile)
                     /\ att' = [att EXCEPT
                           ![i].pc = "Succeeded",
                           ![i].events = Append(@, "poll"),
                           ![i].polled = TRUE,
                           ![i].running = procs[att[i].pid].alive,
                           ![i].handed = TRUE,
                           ![i].saved = (configFile' = FileJson(h.cfg)),
                           ![i].result =
                               [success |-> TRUE,
                                message |-> MsgStarted(att[i].cmd.n, att[i].cmd.h),
                                pid |-> att[i].pid]]
                ELSE /\ att' = [att EXCEPT
                           ![i].pc = "Failed",
                           ![i].events = Append(@, "poll"),
                           ![i].polled = TRUE,
                           ![i].running = procs[att[i].pid].alive,
                           ![i].result = Failure(MsgLaunchError(<<"TypeError">>))]
                     /\ UNCHANGED <<config, configFile>>
       ELSE /\ \E stderr \in StderrOutputs :
                 LET error_msg == IF stderr # <<>> THEN Decode(stderr)
                                  ELSE MsgUnknownError
                 IN  att' = [att EXCEPT
                           ![i].pc = "Failed",
                           ![i].events = Append(@, "poll"),
                           ![i].polled = TRUE,
                           ![i].running = procs[att[i].pid].alive,
                           ![i].stderr = stderr,
                           ![i].result =
                               Failure(MsgLaunchError(Take(error_msg, ExcerptLen)))]
            /\ UNCHANGED <<config, configFile>>
    /\ UNCHANGED <<launcherExists, procs, started, ack>>

\* WebViewApp.update_nickname: on a config that is not a dict the assignment
\* raises and nothing is saved.
update_nickname(nickname) ==
    /\ config.isDict
    /\ config' = [config EXCEPT !.last_nickname = PyStr(nickname)]
    /\ configFile' \in SaveOutcomes(config', configFile)
    /\ UNCHANGED <<launcherExists, procs, att, started, ack>>

(***************************************************************************)
(* JSON documents: a value is a record of one shape whatever its kind, so  *)
(* that any two values can be compared. An object keeps its keys in        *)
(* insertion order, as a Python dict does.                                 *)
(***************************************************************************)
JNull == [k |-> "null", b |-> FALSE, n |-> 0, s |-> <<>>, items |-> <<>>, keys |-> <<>>]
JBool(b) == [JNull EXCEPT !.k = "bool", !.b = b]
JNum(n) == [JNull EXCEPT !.k = "num", !.n = n]
JStr(s) == [JNull EXCEPT !.k = "str", !.s = s]
JArr(items) == [JNull EXCEPT !.k = "arr", !.items = items]
JObj(keys, items) == [JNull EXCEPT !.k = "obj", !.keys = keys, !.items = items]

\* A character UTF-8 cannot encode (a lone surrogate, which a page can pass).
Surrogate == "#D800"

Digits == <<"0", "1", "2", "3", "4", "5", "6", "7", "8", "9">>

IsDigit(c) == \E d \in 1..10 : Digits[d] = c

DigitVal(c) == (CHOOSE d \in 1..10 : Digits[d] = c) - 1

RECURSIVE NatChars(_)
NatChars(n) ==
    IF n < 10 THEN <<Digits[n + 1]>> ELSE NatChars(n \div 10) \o <<Digits[(n % 10) + 1]>>

\* int.__repr__
IntChars(n) == IF n < 0 THEN <<"-">> \o NatChars(0 - n) ELSE NatChars(n)

(***************************************************************************)
(* json.dump(data, f, indent=4, ensure_ascii=False).                       *)
(***************************************************************************)
IndentWidth == 4

EscapeCharMutant(c) ==
    CASE c = "\"" -> <<"\\", "\"">>
      [] c = "\\" -> <<"\\", "\\">>
      [] OTHER -> <<c>>

\* json.encoder.ESCAPE_DCT, on the characters of the model
EscapeChar(c) ==
    CASE c = "\"" -> <<"\\", "\"">>
      [] c = "\\" -> <<"\\", "\\">>
      [] c = "\n" -> <<"\\", "n">>
      [] c = "\r" -> <<"\\", "r">>
      [] c = "\t" -> <<"\\", "t">>
      [] OTHER -> <<c>>

RECURSIVE Escape(_)
Escape(s) == IF s = <<>> THEN <<>> ELSE EscapeChar(Head(s)) \o Escape(Tail(s))

\* py_encode_basestring
Quote(s) == <<"\"">> \o Escape(s) \o <<"\"">>

NewlineIndent(level) == <<"\n">> \o Rep(" ", IndentWidth * level)

\* _iterencode: the text of a value at a nesting level.
RECURSIVE Dump(_, _)
RECURSIVE DumpItems(_, _, _)
RECURSIVE DumpPairs(_, _, _, _)
Dump(v, level) ==
    CASE v.k = "null" -> <<"n", "u", "l", "l">>
      [] v.k = "bool" -> IF v.b THEN <<"t", "r", "u", "e">>
                         ELSE <<"f", "a", "l", "s", "e">>
      [] v.k = "num" -> IntChars(v.n)
      [] v.k = "str" -> Quote(v.s)
      [] v.k = "arr" ->
            IF v.items = <<>> THEN <<"[", "]">>
            ELSE <<"[">> \o DumpItems(v.items, 1, level + 1)
                 \o NewlineIndent(level) \o <<"]">>
      [] v.k = "obj" ->
            IF v.keys = <<>> THEN <<"{", "}">>
            ELSE <<"{">> \o DumpPairs(v.keys, v.items, 1, level + 1)
                 \o NewlineIndent(level) \o <<"}">>

DumpItems(items, i, level) ==
    IF i > Len(items) THEN <<>>
    ELSE (IF i > 1 THEN <<",">> ELSE <<>>) \o NewlineIndent(level)
         \o Dump(items[i], level) \o DumpItems(items, i + 1, level)

DumpPairs(keys, items, i, level) ==
    IF i > Len(keys) THEN <<>>
    ELSE (IF i > 1 THEN <<",">> ELSE <<>>) \o NewlineIndent(level)
         \o Quote(keys[i]) \o <<":", " ">> \o Dump(items[i], level)
         \o DumpPairs(keys, items, i + 1, level)

\* Where the write of a text stops: at the first character the file's encoding
\* rejects (UnicodeEncodeError), or nowhere.
RECURSIVE FirstUnencodable(_, _)
FirstUnencodable(text, i) ==
    IF i > Len(text) THEN 0
    ELSE IF text[i] = Surrogate THEN i
    ELSE FirstUnencodable(text, i + 1)

(***************************************************************************)
(* json.loads.                                                             *)
(***************************************************************************)
JsonWs == {" ", "\t", "\n", "\r"}

ControlChars == {"\n", "\r", "\t"}

ParseFail == [ok |-> FALSE, v |-> JNull, next |-> 0]
ParseOk(v, next) == [ok |-> TRUE, v |-> v, next |-> next]

RECURSIVE SkipWs(_, _)
SkipWs(t, i) == IF i <= Len(t) /\ t[i] \in JsonWs THEN SkipWs(t, i + 1) ELSE i

At(t, i) == IF i >= 1 /\ i <= Len(t) THEN t[i] ELSE "EOF"

StartsAt(t, i, word) ==
    /\ i + Len(word) - 1 <= Len(t)
    /\ SubSeq(t, i, i + Len(word) - 1) = word

\* The character an escape stands for; "none" when the escape is invalid.
Unescape(c) ==
    CASE c = "\"" -> "\"" [] c = "\\" -> "\\" [] c = "/" -> "/"
      [] c = "n" -> "\n" [] c = "r" -> "\r" [] c = "t" -> "\t"
      [] OTHER -> "none"

\* py_scanstring, strict: from the character after the opening quote.
RECURSIVE ScanString(_, _, _)
ScanString(t, i, acc) ==
    IF i > Len(t) THEN ParseFail
    ELSE IF t[i] = "\"" THEN ParseOk(JStr(acc), i + 1)
    ELSE IF t[i] = "\\"
         THEN IF Unescape(At(t, i + 1)) = "none" THEN ParseFail
              ELSE ScanString(t, i + 2, Append(acc, Unescape(t[i + 1])))
    ELSE IF t[i] \in ControlChars THEN ParseFail
    ELSE ScanString(t, i + 1, Append(acc, t[i]))

\* NUMBER_RE, integers: -?(0|[1-9]\d*)
RECURSIVE ScanDigits(_, _, _)
ScanDigits(t, i, acc) ==
    IF IsDigit(At(t, i)) THEN ScanDigits(t, i + 1, acc * 10 + DigitVal(t[i]))
    ELSE ParseOk(JNum(acc), i)

ScanNat(t, i) ==
    IF ~IsDigit(At(t, i)) THEN ParseFail
    ELSE IF t[i] = "0" THEN ParseOk(JNum(0), i + 1)
    ELSE ScanDigits(t, i, 0)

ScanNumber(t, i) ==
    IF At(t, i) = "-"
    THEN LET r == ScanNat(t, i + 1)
         IN  IF r.ok THEN ParseOk(JNum(0 - r.v.n), r.next) ELSE ParseFail
    ELSE ScanNat(t, i)

\* dict(pairs): a key seen again keeps its place and takes the new value.
DictPut(obj, key, val) ==
    IF \E j \in 1..Len(obj.keys) : obj.keys[j] = key
    THEN LET j == CHOOSE j \in 1..Len(obj.keys) : obj.keys[j] = key
         IN  [obj EXCEPT !.items[j] = val]
    ELSE [obj EXCEPT !.keys = Append(@, key), !.items = Append(@, val)]

\* scan_once, JSONArray and JSONObject.
RECURSIVE ParseValue(_, _)
RECURSIVE ParseItems(_, _, _)
RECURSIVE ParsePairs(_, _, _)
ParseValue(t, i) ==
    LET c == At(t, i)
    IN  CASE c = "\"" -> ScanString(t, i + 1, <<>>)
          [] c = "{" ->
                IF At(t, SkipWs(t, i + 1)) = "}"
                THEN ParseOk(JObj(<<>>, <<>>), SkipWs(t, i + 1) + 1)
                ELSE ParsePairs(t, SkipWs(t, i + 1), JObj(<<>>, <<>>))
          [] c = "[" ->
                IF At(t, SkipWs(t, i + 1)) = "]"
                THEN ParseOk(JArr(<<>>), SkipWs(t, i + 1) + 1)
                ELSE ParseItems(t, SkipWs(t, i + 1), <<>>)
          [] c = "n" /\ StartsAt(t, i, <<"n", "u", "l", "l">>) -> ParseOk(JNull, i + 4)
          [] c = "t" /\ StartsAt(t, i, <<"t", "r", "u", "e">>) -> ParseOk(JBool(TRUE), i + 4)
          [] c = "f" /\ StartsAt(t, i, <<"f", "a", "l", "s", "e">>) ->
                ParseOk(JBool(FALSE), i + 5)
          [] c = "-" \/ IsDigit(c) -> ScanNumber(t, i)
          [] OTHER -> ParseFail

\* i: the start of an item. After it: a comma and the next item, or the bracket.
ParseItems(t, i, acc) ==
    LET r == ParseValue(t, i)
    IN  IF ~r.ok THEN ParseFail
        ELSE LET j == SkipWs(t, r.next)
             IN  IF At(t, j) = "," THEN ParseItems(t, SkipWs(t, j + 1), Append(acc, r.v))
                 ELSE IF At(t, j) = "]" THEN ParseOk(JArr(Append(acc, r.v)), j + 1)
                 ELSE ParseFail

\* i: the start of a key, which must be a string.
ParsePairs(t, i, obj) ==
    IF At(t, i) # "\"" THEN ParseFail
    ELSE LET key == ScanString(t, i + 1, <<>>)
         IN  IF ~key.ok THEN ParseFail
             ELSE LET c == SkipWs(t, key.next)
                  IN  IF At(t, c) # ":" THEN ParseFail
                      ELSE LET r == ParseValue(t, SkipWs(t, c + 1))
                           IN  IF ~r.ok THEN ParseFail
                               ELSE LET j == SkipWs(t, r.next)
                                        o == DictPut(obj, key.v.s, r.v)
                                    IN  IF At(t, j) = ","
                                        THEN ParsePairs(t, SkipWs(t, j + 1), o)
                                        ELSE IF At(t, j) = "}" THEN ParseOk(o, j + 1)
                                        ELSE ParseFail

\* JSONDecoder.decode: one value, white space around it, nothing else.
Loads(t) ==
    LET r == ParseValue(t, SkipWs(t, 1))
    IN  IF r.ok /\ SkipWs(t, r.next) = Len(t) + 1 THEN r ELSE ParseFail

(***************************************************************************)
(* PatchCodec: read_patches and write_patches on #ArizonaPatches.json.     *)
(***************************************************************************)
KeySuccess == <<"s", "u", "c", "c", "e", "s", "s">>
KeyMessage == <<"m", "e", "s", "s", "a", "g", "e">>

\* The texts of the reports, shortened.
TextNotFound == <<"n", "o", " ", "f", "i", "l", "e">>
TextParseError == <<"b", "a", "d", " ", "j", "s", "o", "n">>
TextSaved == <<"s", "a", "v", "e", "d">>
TextWriteError == <<"e", "r", "r", "o", "r">>

\* {"success": ..., "message": ...}
Report(success, text) == JObj(<<KeySuccess, KeyMessage>>, <<JBool(success), JStr(text)>>)

Line(chars) == chars \o <<"\n">>

\* re.sub(r'^\s*//.*$', '', content, flags=re.MULTILINE), from position i on:
\* at the start of a line, white space (line breaks included) and then // match
\* up to the end of that line, and the match is removed.
RECURSIVE SkipSpace(_, _)
SkipSpace(t, i) == IF i <= Len(t) /\ t[i] \in Whitespace THEN SkipSpace(t, i + 1) ELSE i

RECURSIVE EndOfLine(_, _)
EndOfLine(t, i) == IF i > Len(t) \/ t[i] = "\n" THEN i ELSE EndOfLine(t, i + 1)

IsCommentAtAnywhere(t, i) ==
    \E j \in i..(EndOfLine(t, i) - 1) : StartsAt(t, j, <<"/", "/">>)

\* Whether the pattern matches at line start i.
IsCommentAt(t, i) == StartsAt(t, SkipSpace(t, i), <<"/", "/">>)

RECURSIVE SubComments(_, _, _)
SubComments(t, i, out) ==
    IF i > Len(t) THEN out
    ELSE IF (i = 1 \/ t[i - 1] = "\n") /\ IsCommentAt(t, i)
         THEN SubComments(t, EndOfLine(t, SkipSpace(t, i)), out)
    ELSE SubComments(t, i + 1, Append(out, t[i]))

\* str.split('\n')
RECURSIVE Split(_, _, _)
Split(t, i, cur) ==
    IF i > Len(t) THEN <<cur>>
    ELSE IF t[i] = "\n" THEN <<cur>> \o Split(t, i + 1, <<>>)
    ELSE Split(t, i + 1, Append(cur, t[i]))

\* '\n'.join(lines)
RECURSIVE Join(_, _)
Join(lines, i) ==
    IF i > Len(lines) THEN <<>>
    ELSE (IF i > 1 THEN <<"\n">> ELSE <<>>) \o lines[i] \o Join(lines, i + 1)

\* lines 183-185: the text handed to json.loads
StripComments(content) ==
    LET lines == Split(SubComments(content, 1, <<>>), 1, <<>>)
    IN  Join(SelectSeq(lines, LAMBDA line : Strip(line) # <<>>), 1)

\* A file: whether it exists, and its text.
NoFile == [exists |-> FALSE, content |-> <<>>]
File(content) == [exists |-> TRUE, content |-> content]

\* read_patches: the value returned, the text parsed and how the call went.
read_patches(file) ==
    IF ~file.exists
    THEN [value |-> Report(FALSE, TextNotFound), text |-> <<>>, went |-> "NotFound"]
    ELSE LET text == StripComments(file.content)
             r == Loads(text)
         IN  IF r.ok THEN [value |-> r.v, text |-> text, went |-> "ok"]
             ELSE [value |-> Report(FALSE, TextParseError), text |-> text,
                   went |-> "ParseError"]

\* The documents the page writes: objects, arrays and scalars, with the
\* characters the codec treats specially (//, quotes, backslashes, line breaks).
DocToggles ==
    JObj(<< <<"a">>, <<"u">> >>, << JNum(1), JStr(<<"/", "/", "x">>) >>)
DocComment == JStr(<<"/", "/">>)
DocArray ==
    JArr(<< JStr(<<"a", "\n", "/", "/", "b">>), JBool(TRUE), JNull, JObj(<<>>, <<>>) >>)
DocSlashKey ==
    JObj(<< <<"/", "/", "k">> >>, << JArr(<< JNum(0 - 12), JStr(<<"\"", "\\">>) >>) >>)
DocNested ==
    JObj(<< <<"o">> >>, << JObj(<< <<"p">>, <<" ">> >>, << JArr(<<>>), JBool(FALSE) >>) >>)
DocSurrogate ==
    JObj(<< <<"a">>, <<"b">> >>, << JNum(1), JStr(<<Surrogate>>) >>)

PatchDocs ==
    {DocToggles, DocComment, DocArray, DocSlashKey, DocNested, DocSurrogate}

\* The files the launcher may find: none; a document with full-line comments
\* and blank lines between its lines; one with a comment after content.
FileCommented ==
    File(Line(<<"/", "/", " ", "h">>)
         \o Line(<<"{">>)
         \o Line(<<" ", " ", "/", "/", "x">>)
         \o Line(<<" ", "\"", "a", "\"", ":", " ", "1", ",">>)
         \o Line(<<" ">>)
         \o Line(<<"\t", "/", "/">>)
         \o Line(<<" ", "\"", "u", "\"", ":", "\"", "x", "/", "/", "y", "\"">>)
         \o <<"}">>)

FileTrailing ==
    File(Line(<<"{", "\"", "a", "\"", ":", "1", " ", "/", "/", "t">>) \o <<"}">>)

\* Blank lines before a comment, a comment after a tab, a string that holds //
\* and a comment on a last line that has no line break.
FileBlankComment ==
    File(Line(<<"[">>)
         \o Line(<<" ">>)
         \o Line(<<>>)
         \o Line(<<"/", "/", "c">>)
         \o Line(<<"1", " ", ",">>)
         \o Line(<<" ", "\t", "/", "/", " ", "d">>)
         \o Line(<<"\"", "/", "/", "s", "\"", " ">>)
         \o Line(<<"]">>)
         \o <<" ", " ", "/", "/", " ", "f">>)

PatchFiles == {NoFile, FileCommented, FileTrailing, FileBlankComment}

\* How far an interrupted write may get: nothing flushed, or half of the text.
Cuts(text) == {0, Len(text) \div 2}

\* The start of the chunk json.dump was writing at position u: the string
\* literal that holds the character, from its opening quote.
RECURSIVE ChunkStart(_, _)
ChunkStart(text, u) ==
    IF u <= 1 THEN 1
    ELSE IF text[u] = "\"" /\ text[u - 1] # "\\" THEN u
    ELSE ChunkStart(text, u - 1)

\* The last read_patches call: the value returned, how the call went, whether
\* it came right after a write that returned success, and whether that write
\* wrote back what the read before it had returned.
NoRead == [value |-> JNull, went |-> "none", afterWrite |-> FALSE, roundTrip |-> FALSE]

\* pc: whether a write_patches call is between its open and its return. went:
\* how the last call ended. fresh: it returned success and nothing was called
\* since. chain: 1 after a read, 2 while its result is written back, 3 once
\* that write has returned success.
NoWrite == [pc |-> "idle", data |-> JNull, went |-> "none", fresh |-> FALSE, chain |-> 0]

\* What write_patches returns, lines 203 and 206.
WriteReturn(went) ==
    IF went = "ok" THEN Report(TRUE, TextSaved) ELSE Report(FALSE, TextWriteError)

\* write_patches, line 200: open(self.patches_path, 'w') raises, or creates or
\* truncates the file.
WriteOpen(data) ==
    /\ wr.pc = "idle"
    /\ \/ /\ wr' = [wr EXCEPT !.data = data, !.went = "fail", !.fresh = FALSE,
                              !.chain = 0]
          /\ UNCHANGED patchFile
       \/ /\ wr' = [wr EXCEPT !.pc = "open", !.data = data, !.went = "none",
                              !.fresh = FALSE,
                              !.chain = IF wr.chain = 1 /\ data = rd.value
                                        THEN 2 ELSE 0]
          /\ patchFile' = File(<<>>)
    /\ rd' = [rd EXCEPT !.afterWrite = FALSE, !.roundTrip = FALSE]

\* write_patches, lines 201-206: json.dump into the open file, the close and
\* the report. The dump stops at a chunk the encoding rejects, or at an I/O
\* error, and what was written before stays in the file.
WriteDump ==
    /\ wr.pc = "open"
    /\ LET text == Dump(wr.data, 0)
           u == FirstUnencodable(text, 1)
           failed == [wr EXCEPT !.pc = "idle", !.went = "fail", !.chain = 0]
       IN  IF u # 0
           THEN /\ patchFile' = File(Take(text, ChunkStart(text, u) - 1))
                /\ wr' = failed
           ELSE \/ /\ patchFile' = File(text)
                   /\ wr' = [wr EXCEPT !.pc = "idle", !.went = "ok", !.fresh = TRUE,
                                       !.chain = IF wr.chain = 2 THEN 3 ELSE 0]
                \/ /\ \E cut \in Cuts(text) : patchFile' = File(Take(text, cut))
                   /\ wr' = failed
    /\ UNCHANGED rd

\* read_patches, the whole call; WebViewApp.read_patches runs it on the thread
\* of the call, also while a write is between its open and its return.
ReadPatches ==
    /\ LET r == read_patches(patchFile)
       IN  /\ rd' = [value |-> r.value, went |-> r.went,
                     afterWrite |-> wr.pc = "idle" /\ wr.fresh,
                     roundTrip |-> wr.pc = "idle" /\ wr.chain = 3]
           /\ wr' = [wr EXCEPT !.fresh = FALSE,
                               !.chain = IF wr.pc = "idle" THEN 1 ELSE 0]
    /\ UNCHANGED patchFile

(***************************************************************************)
(* ServerRosterNormalizer: WebViewApp.get_servers.                         *)
(***************************************************************************)
MaxEntries == 2      \* entries in a roster payload

K_number == <<"n", "u", "m", "b", "e", "r">>
K_serverNumber == <<"s", "e", "r", "v", "e", "r", "N", "u", "m", "b", "e", "r">>
K_id == <<"i", "d">>
K_name == <<"n", "a", "m", "e">>
K_online == <<"o", "n", "l", "i", "n", "e">>
K_playersOnline == <<"p", "l", "a", "y", "e", "r", "s", "O", "n", "l", "i", "n", "e">>
K_queue == <<"q", "u", "e", "u", "e">>
K_queueLength == <<"q", "u", "e", "u", "e", "L", "e", "n", "g", "t", "h">>
K_maxplayers == <<"m", "a", "x", "p", "l", "a", "y", "e", "r", "s">>
K_maxPlayers == <<"m", "a", "x", "P", "l", "a", "y", "e", "r", "s">>
K_maxonline == <<"m", "a", "x", "o", "n", "l", "i", "n", "e">>
K_ip == <<"i", "p">>
K_port == <<"p", "o", "r", "t">>
K_recomend == <<"r", "e", "c", "o", "m", "e", "n", "d">>
K_recommended == <<"r", "e", "c", "o", "m", "m", "e", "n", "d", "e", "d">>
K_query == <<"q", "u", "e", "r", "y">>

\* bool(value)
JTruthy(v) ==
    CASE v.k = "null" -> FALSE
      [] v.k = "bool" -> v.b
      [] v.k = "num" -> v.n # 0
      [] v.k = "str" -> v.s # <<>>
      [] v.k = "arr" -> v.items # <<>>
      [] v.k = "obj" -> v.keys # <<>>

\* a or b
Or(a, b) == IF JTruthy(a) THEN a ELSE b

HasKey(obj, key) == \E j \in 1..Len(obj.keys) : obj.keys[j] = key

\* dict.get(key, default); dict.get(key) is DictGet(obj, key, JNull)
DictGet(obj, key, default) ==
    IF HasKey(obj, key)
    THEN obj.items[CHOOSE j \in 1..Len(obj.keys) : obj.keys[j] = key]
    ELSE default

\* The text of a value inside an f-string.
Format(v) ==
    CASE v.k = "num" -> IntChars(v.n)
      [] v.k = "str" -> v.s
      [] v.k = "null" -> <<"None">>
      [] v.k = "bool" -> IF v.b THEN <<"True">> ELSE <<"False">>
      [] OTHER -> <<"repr">>

OnlineThreshold == 400
DefaultMaxPlayers == 1000

\* value > 400: defined on numbers (a bool is the number 0 or 1), TypeError on
\* the other kinds.
CanCompare(v) == v.k \in {"num", "bool"}
GreaterThan(v, n) == v.k = "num" /\ v.n > n

\* value == 0
IsZero(v) == (v.k = "num" /\ v.n = 0) \/ (v.k = "bool" /\ ~v.b)

\* line 295; idx counts from 0
ServerId(server, idx) ==
    Or(DictGet(server, K_number, JNull),
       Or(DictGet(server, K_serverNumber, JNull),
          DictGet(server, K_id, JNum(idx + 1))))

\* line 297
ServerOnline(server) ==
    Or(DictGet(server, K_online, JNull), DictGet(server, K_playersOnline, JNum(0)))

\* line 298
ServerQueue(server) ==
    Or(DictGet(server, K_queue, JNull), DictGet(server, K_queueLength, JNum(0)))

\* line 299
ServerMax(server) ==
    Or(DictGet(server, K_maxplayers, JNull),
       Or(DictGet(server, K_maxPlayers, JNull),
          DictGet(server, K_maxonline, JNum(DefaultMaxPlayers))))

\* line 304: whether evaluating is_recommended raises TypeError, which it does
\* when the comparison is reached with an online that is no number.
RecommendedRaises(server) ==
    /\ ~JTruthy(DictGet(server, K_recomend, JBool(FALSE)))
    /\ ~JTruthy(DictGet(server, K_recommended, JBool(FALSE)))
    /\ ~CanCompare(ServerOnline(server))

\* line 304
Recommended(server) ==
    Or(DictGet(server, K_recomend, JBool(FALSE)),
       Or(DictGet(server, K_recommended, JBool(FALSE)),
          IF GreaterThan(ServerOnline(server), OnlineThreshold)
          THEN JBool(IsZero(ServerQueue(server)))
          ELSE JBool(FALSE)))

\* lines 291-293 and 316-318: the entries the loop skips.
Skipped(server) == server.k # "obj" \/ RecommendedRaises(server)

\* lines 295-315: the canonical record of an entry
Normalize(server, idx) ==
    LET server_id == ServerId(server, idx)
    IN  [number |-> server_id,
         name |-> DictGet(server, K_name,
                          JStr(<<"S", "e", "r", "v", "e", "r", " ">> \o Format(server_id))),
         online |-> ServerOnline(server),
         queue |-> ServerQueue(server),
         recommended |-> Recommended(server),
         ip |-> DictGet(server, K_ip,
                        JStr(<<"s", "e", "r", "v", "e", "r">> \o Format(server_id)
                             \o <<".arizona-rp.com">>)),
         port |-> DictGet(server, K_port, JNum(DefaultPort)),
         maxplayers |-> ServerMax(server)]

\* lines 287-318: the loop over server_list, from position i (idx = i - 1)
RECURSIVE NormalizeAll(_, _)
NormalizeAll(server_list, i) ==
    IF i > Len(server_list) THEN <<>>
    ELSE (IF Skipped(server_list[i]) THEN <<>>
          ELSE <<Normalize(server_list[i], i - 1)>>)
         \o NormalizeAll(server_list, i + 1)

\* 'query' in data: a key of a dict, an item of a list, a part of a str.
QueryIn(data) ==
    CASE data.k = "obj" -> HasKey(data, K_query)
      [] data.k = "arr" -> \E j \in 1..Len(data.items) : data.items[j] = JStr(K_query)
      [] data.k = "str" -> Contains(data.s, K_query)
      [] OTHER -> FALSE

None == [ok |-> FALSE, servers |-> <<>>]
Roster(servers) == [ok |-> TRUE, servers |-> servers]

\* lines 264-278: len(data) raises on a number, a bool and None; data['query']
\* raises on a list and on a str.
Shape(data) ==
    IF data.k \in {"num", "bool", "null"} THEN None
    ELSE IF QueryIn(data)
    THEN IF data.k # "obj" THEN None
         ELSE IF DictGet(data, K_query, JNull).k = "arr"
              THEN Roster(NormalizeAll(DictGet(data, K_query, JNull).items, 1))
              ELSE Roster(NormalizeAll(data.items, 1))
    ELSE IF data.k = "arr" THEN Roster(NormalizeAll(data.items, 1))
    ELSE IF data.k = "obj" THEN Roster(NormalizeAll(data.items, 1))
    ELSE None

\* What requests.get and response.json give: a transport error, a status, a
\* body that is no JSON, or the document.
Response(kind, status, data) == [kind |-> kind, status |-> status, data |-> data]

\* get_servers, lines 253-352
get_servers(response) ==
    IF response.kind \in {"Timeout", "ConnectionError"} THEN None
    ELSE IF response.status # 200 THEN None
    ELSE IF response.kind = "NotJson" THEN None
    ELSE Shape(response.data)

\* The entries a payload may hold.
EntryCanonical ==
    JObj(<<K_number, K_name, K_online, K_queue, K_maxplayers, K_ip, K_port>>,
         <<JNum(3), JStr(<<"A">>), JNum(500), JNum(0), JNum(900),
           JStr(<<"h">>), JNum(7000)>>)
EntryAlternate ==
    JObj(<<K_serverNumber, K_playersOnline, K_queueLength, K_maxPlayers, K_recommended>>,
         <<JNum(4), JNum(10), JNum(2), JNum(800), JBool(TRUE)>>)
EntryEmpty == JObj(<<>>, <<>>)
EntryFalsy ==
    JObj(<<K_id, K_online, K_playersOnline, K_maxonline>>,
         <<JNum(0), JNum(0), JNum(450), JNum(0)>>)
EntryBadOnline == JObj(<<K_number, K_online>>, <<JNum(5), JStr(<<"m", "a", "n", "y">>)>>)
EntryQueryText == JStr(K_query)
EntryNumber == JNum(7)

RosterEntries ==
    {EntryCanonical, EntryAlternate, EntryEmpty, EntryFalsy, EntryBadOnline,
     EntryQueryText, EntryNumber}

EntryLists == UNION {[1..n -> RosterEntries] : n \in 0..MaxEntries}

\* The three presentations of one entry list.
AsQuery(entries) == JObj(<<K_query>>, <<JArr(entries)>>)
AsList(entries) == JArr(entries)
AsObject(entries) == JObj([j \in 1..Len(entries) |-> <<"s">> \o NatChars(j)], entries)

\* Documents of the other top-level shapes.
OtherPayloads ==
    {JNull, JNum(5), JBool(TRUE), JStr(<<"o", "k">>), JStr(<<"x">> \o K_query),
     JObj(<<K_query, <<"s", "1">>>>, <<JNum(5), EntryCanonical>>)}

Payloads ==
    {AsQuery(es) : es \in EntryLists} \cup {AsList(es) : es \in EntryLists}
      \cup {AsObject(es) : es \in EntryLists} \cup OtherPayloads

Responses ==
    {Response("Timeout", 0, JNull), Response("ConnectionError", 0, JNull),
     Response("NotJson", 200, JNull), Response("Json", 500, AsList(<<EntryCanonical>>))}
      \cup {Response("Json", 200, data) : data \in Payloads}

NoFetch == [called |-> FALSE, response |-> Response("Timeout", 0, JNull), result |-> None]

\* One call of get_servers by the page.
GetServers(response) ==
    /\ fetch' = [called |-> TRUE, response |-> response, result |-> get_servers(response)]
    /\ UNCHANGED <<launchVars, patchVars>>

Init ==
    /\ launcherExists \in BOOLEAN
    /\ configFile \in ConfigFiles
    /\ config = load_config(configFile)
    /\ procs \in ProcTables
    /\ att = [i \in 1..MaxAttempts |-> IdleAttempt]
    /\ started = 0
    /\ ack = NoAck
    /\ patchFile = NoFile /\ wr = NoWrite /\ rd = NoRead
    /\ fetch = NoFetch

Next ==
    \/ \E r \in Requests :
          start_game(r[1], r[2]) /\ UNCHANGED <<patchVars, rosterVars>>
    \/ \E i \in 1..MaxAttempts : Validate(i) /\ UNCHANGED <<patchVars, rosterVars>>
    \/ \E i \in 1..MaxAttempts : Reconcile(i) /\ UNCHANGED <<patchVars, rosterVars>>
    \/ \E i \in 1..MaxAttempts : Spawn(i) /\ UNCHANGED <<patchVars, rosterVars>>
    \/ \E i \in 1..MaxAttempts : Confirm(i) /\ UNCHANGED <<patchVars, rosterVars>>
    \/ \E pid \in 1..Len(procs) : ChildExit(pid) /\ UNCHANGED <<patchVars, rosterVars>>
    \/ \E nickname \in UpdateNicknames :
          update_nickname(nickname) /\ UNCHANGED <<patchVars, rosterVars>>

Spec == Init /\ [][Next]_vars

\* Each launch thread is scheduled until launch_game returns: none of its steps
\* waits for another thread, and the sleeps are finite.
Fairness ==
    \A i \in 1..MaxAttempts :
        /\ WF_vars(Validate(i) /\ UNCHANGED <<patchVars, rosterVars>>)
        /\ WF_vars(Reconcile(i) /\ UNCHANGED <<patchVars, rosterVars>>)
        /\ WF_vars(Spawn(i) /\ UNCHANGED <<patchVars, rosterVars>>)
        /\ WF_vars(Confirm(i) /\ UNCHANGED <<patchVars, rosterVars>>)

FairSpec == Spec /\ Fairness

\* The codec alone: the launcher idle, the file as the launcher may find it.
PatchInit ==
    /\ launcherExists = TRUE
    /\ configFile = FileAbsent
    /\ config = load_config(configFile)
    /\ procs = <<>>
    /\ att = [i \in 1..MaxAttempts |-> IdleAttempt]
    /\ started = 0
    /\ ack = NoAck
    /\ patchFile \in PatchFiles /\ wr = NoWrite /\ rd = NoRead
    /\ fetch = NoFetch

\* The page writes one of its documents, or writes back what it has read.
PatchNext ==
    \/ \E data \in PatchDocs : WriteOpen(data) /\ UNCHANGED <<launchVars, rosterVars>>
    \/ rd.went # "none" /\ WriteOpen(rd.value) /\ UNCHANGED <<launchVars, rosterVars>>
    \/ WriteDump /\ UNCHANGED <<launchVars, rosterVars>>
    \/ ReadPatches /\ UNCHANGED <<launchVars, rosterVars>>

PatchSpec == PatchInit /\ [][PatchNext]_vars

\* The roster fetch alone.
RosterInit ==
    /\ launcherExists = TRUE
    /\ configFile = FileAbsent
    /\ config = load_config(configFile)
    /\ procs = <<>>
    /\ att = [i \in 1..MaxAttempts |-> IdleAttempt]
    /\ started = 0
    /\ ack = NoAck
    /\ patchFile = NoFile /\ wr = NoWrite /\ rd = NoRead
    /\ fetch = NoFetch

RosterNext == \E response \in Responses : GetServers(response)

RosterSpec == RosterInit /\ [][RosterNext]_vars

(***************************************************************************)
(* The launch supervisor's claims.                                         *)
(***************************************************************************)
Attempts == 1..MaxAttempts

Terminal(a) == a.pc \in {"Succeeded", "Failed"}

\* The request fails validation: the executable is missing, or the nickname is
\* empty once trimmed.
FailsValidation(a) == ~launcherExists \/ Len(Strip(a.nickname)) = 0

KillableLauncher(p) == p.alive /\ p.hasName /\ ~p.prot /\ Matches(p)

\* C1: a launch request that fails input validation (nickname empty or blank
\* once trimmed, or executable missing) ends in Failed, and neither terminates a
\* process, nor spawns one, nor modifies or saves the preferences: the thread
\* never leaves validation but to Failed, it has no kill, spawn or poll behind
\* it, and the step that fails it leaves the process table, the preferences in
\* memory and the preferences on disk as they were.
C1_ValidationFailureHasNoEffect ==
    /\ [](\A i \in Attempts :
            (att[i].pc # "Idle" /\ FailsValidation(att[i])) =>
                /\ att[i].pc \in {"ValidatingInput", "Failed"}
                /\ att[i].events = <<>> /\ att[i].kills = {} /\ att[i].pid = 0
                /\ ~att[i].handed /\ ~att[i].saved
                /\ att[i].pc = "Failed" => ~att[i].result.success)
    /\ [][\A i \in Attempts :
            (att[i].pc = "ValidatingInput" /\ att'[i].pc = "Failed") =>
                /\ FailsValidation(att[i])
                /\ procs' = procs /\ config' = config /\ configFile' = configFile]_vars

C1_Witness ==
    \E i \in Attempts :
        /\ att[i].pc = "Failed"
        /\ att[i].nickname = NickBlank
        /\ att[i].result.message = MsgEnterNickname
        /\ \E p \in 1..Len(procs) : KillableLauncher(procs[p])

LaunchOrder == <<"kill", "spawn", "poll">>

\* C2: within one launch attempt the termination requests come before the
\* spawn and the spawn before the liveness poll: what the attempt has done is
\* always an initial part of kill, spawn, poll; it is in Spawning only with the
\* kill behind it and in ConfirmingLiveness only with a spawned process.
C2_KillThenSpawnThenPoll ==
    \A i \in Attempts :
        /\ Len(att[i].events) <= Len(LaunchOrder)
        /\ att[i].events = SubSeq(LaunchOrder, 1, Len(att[i].events))
        /\ att[i].pc = "Spawning" => att[i].events = <<"kill">>
        /\ att[i].pc = "ConfirmingLiveness" =>
              /\ att[i].events = <<"kill", "spawn">>
              /\ att[i].pid \in 1..Len(procs)
        /\ att[i].kills # {} => att[i].events # <<>>
        /\ att[i].pid # 0 => att[i].kills \subseteq 1..(att[i].pid - 1)

C2_Witness ==
    \E i \in Attempts :
        /\ att[i].events = LaunchOrder
        /\ att[i].kills # {}
        /\ att[i].pid # 0

\* What the outcome says of the standard error read from the exited process.
Excerpt(a) ==
    IF a.stderr = <<>> THEN MsgUnknownError ELSE Take(Decode(a.stderr), ExcerptLen)

\* C3: every attempt that spawned a process and polled it: when the process has
\* exited the outcome is Failed with a message of at most the first 100
\* characters of its standard error, and when it is still running the outcome
\* is Succeeded with the positive pid of the spawned process.
C3_PollDecidesOutcome ==
    \A i \in Attempts :
        att[i].polled =>
            IF att[i].running
            THEN /\ att[i].pc = "Succeeded"
                 /\ att[i].result.success
                 /\ att[i].result.pid = att[i].pid /\ att[i].pid > 0
            ELSE /\ att[i].pc = "Failed"
                 /\ ~att[i].result.success
                 /\ att[i].result.message = MsgLaunchError(Excerpt(att[i]))
                 /\ Len(Excerpt(att[i])) <= ExcerptLen

\* C4: a spawned command never carries a nickname of more than 20 characters,
\* and when the trimmed nickname is longer than 20 characters the command
\* carries exactly its first 20.
C4_NicknameTruncated ==
    \A i \in Attempts :
        att[i].pid # 0 =>
            LET trimmed == Strip(att[i].nickname)
            IN  /\ Len(att[i].cmd.n) <= NickLimit
                /\ procs[att[i].pid].child
                /\ Len(trimmed) > NickLimit =>
                      att[i].cmd.n = SubSeq(trimmed, 1, NickLimit)
                /\ Len(trimmed) <= NickLimit => att[i].cmd.n = trimmed

C4_Witness ==
    \E i \in Attempts :
        /\ att[i].pid # 0
        /\ att[i].nickname = NickLong
        /\ Len(att[i].cmd.n) = NickLimit

\* C5: an attempt whose spawned process is still running at the poll ends in
\* Succeeded, whatever config.json held at startup and whether or not the
\* preferences could be handed over and saved.
C5_PersistenceNeverFailsLaunch ==
    \A i \in Attempts :
        (att[i].polled /\ att[i].running) => att[i].pc = "Succeeded"

\* Whether the request carries a server selection: launch_game asks
\* "if server_data", which None and the empty selection do not pass.
Supplied(sd) == ~sd.isNone /\ sd # EmptyServer

\* C6: the step that ends an attempt in Succeeded leaves the preferences with
\* last_nickname equal to the nickname of the command (trimmed, truncated), and
\* last_server equal to the selection's number when a selection was supplied,
\* and as it was when none was.
C6_SuccessRecordsNicknameAndServer ==
    [][\A i \in Attempts :
          (att[i].pc # "Succeeded" /\ att'[i].pc = "Succeeded") =>
              /\ config'.isDict
              /\ config'.last_nickname = PyStr(att[i].cmd.n)
              /\ att[i].cmd.n = Take(Strip(att[i].nickname), NickLimit)
              /\ Supplied(att[i].server_data) =>
                    config'.last_server = Get(att[i].server_data.number)
              /\ ~Supplied(att[i].server_data) =>
                    config'.last_server = config.last_server]_vars

C6_Witness ==
    \E i, j \in Attempts :
        /\ att[i].pc = "Succeeded" /\ att[i].server_data = FullServer
        /\ att[j].pc = "Succeeded" /\ att[j].server_data = NoServer
        /\ config.last_server = PyInt(7)
        /\ config.last_nickname = PyStr(ValidNickname(att[j].nickname))

\* C11: start_game returns the acknowledgment that processing has started for
\* every input, also for a nickname that will be rejected and with the
\* executable missing: the step that returns it has run no step of the attempt
\* it created (the attempt is at its first check, with no outcome), changes
\* neither the process table nor the preferences, and what was returned is never
\* an outcome of an attempt.
C11_StartReturnsAcknowledgment ==
    /\ [](started > 0 =>
            /\ ack.success /\ ack.status = "processing"
            /\ ack.message = <<"Launch started...">>
            /\ DOMAIN ack = {"success", "message", "status"})
    /\ [][started' # started =>
            /\ started' = started + 1
            /\ att'[started'].pc = "ValidatingInput"
            /\ att'[started'].result = NoResult /\ att'[started'].events = <<>>
            /\ \A i \in Attempts \ {started'} : att'[i] = att[i]
            /\ procs' = procs /\ config' = config /\ configFile' = configFile
            /\ ack'.status = "processing"]_vars

C11_Witness ==
    /\ ack.status = "processing" /\ ack.success
    /\ ~launcherExists
    /\ \E i \in Attempts :
          /\ att[i].nickname = NickBlank
          /\ att[i].pc = "Failed" /\ ~att[i].result.success

\* C12: every launch request whose nickname is empty once trimmed ends in
\* Failed with the InvalidNickname outcome, whether the executable exists or
\* not.
C12_BlankNicknameIsInvalidNickname ==
    \A i \in Attempts :
        (att[i].pc \notin {"Idle", "ValidatingInput"} /\ Len(Strip(att[i].nickname)) = 0) =>
            /\ att[i].pc = "Failed"
            /\ att[i].result = Failure(MsgEnterNickname)

\* The listed processes whose name contains the identifying substring,
\* whatever the case of its letters.
Identified(table) ==
    {p \in AlivePids(table) : table[p].hasName /\ Contains(Lower(table[p].name), Needle)}

\* C13: the reconciliation step of an attempt issues a termination request to
\* every listed process whose name contains the identifying substring and to no
\* other; each of them whose termination is not denied is gone afterwards,
\* whether or not others disappeared or could not be terminated; and the
\* attempt goes on to Spawning.
C13_ReconcileTerminatesEveryMatch ==
    [][\A i \in Attempts :
          (att[i].pc = "ReconcilingProcesses" /\ att'[i].pc # "ReconcilingProcesses") =>
              /\ att'[i].pc = "Spawning"
              /\ att'[i].kills = Identified(procs)
              /\ \A p \in Identified(procs) : ~procs[p].prot => ~procs'[p].alive
              /\ \A p \in AlivePids(procs) \ Identified(procs) :
                    procs'[p].alive \/ p \notin att'[i].kills]_vars

Reached(table, pid) == \A p \in 1..(pid - 1) : table[p].alive => table[p].hasName

\* C15: attempts are not serialised. Whenever one attempt reconciles while the
\* process spawned by another attempt, which has not yet polled it, is running
\* and reached by the kill loop, the step sends that process a termination
\* request and leaves it not running, the other attempt still waiting to poll.
C15_ReconcileKillsOtherAttemptsProcess ==
    [][\A i, j \in Attempts :
          (/\ i # j
           /\ att[j].pc = "ReconcilingProcesses" /\ att'[j].pc = "Spawning"
           /\ att[i].pc = "ConfirmingLiveness"
           /\ procs[att[i].pid].alive
           /\ Reached(procs, att[i].pid)) =>
              /\ att[i].pid \in att'[j].kills
              /\ ~procs'[att[i].pid].alive
              /\ att'[i] = att[i]]_vars

\* The first attempt has killed and spawned, the second has then killed, its
\* requests including the first attempt's process, which the first attempt has
\* yet to poll.
C15_Witness ==
    \E i, j \in Attempts :
        /\ i # j
        /\ att[i].pc = "ConfirmingLiveness" /\ att[i].events = <<"kill", "spawn">>
        /\ att[j].pc = "Spawning" /\ att[j].events = <<"kill">>
        /\ att[i].pid \in att[j].kills
        /\ ~procs[att[i].pid].alive

\* C18: the preferences, in memory and on disk, change only on the step that
\* ends an attempt in Succeeded and on an update_nickname call: the step that
\* ends an attempt in Failed, at validation, at the spawn or at the poll of a
\* process that has exited, leaves both as they were, and a failed attempt has
\* handed over and saved nothing.
C18_OnlySuccessOrUpdateChangesPreferences ==
    /\ [](\A i \in Attempts : att[i].pc = "Failed" => (~att[i].handed /\ ~att[i].saved))
    /\ [][/\ \A i \in Attempts :
                (att[i].pc # "Failed" /\ att'[i].pc = "Failed") =>
                    (config' = config /\ configFile' = configFile)
          /\ (config' # config \/ configFile' # configFile) =>
                \/ \E i \in Attempts : att[i].pc # "Succeeded" /\ att'[i].pc = "Succeeded"
                \/ /\ att' = att
                   /\ \E nickname \in UpdateNicknames :
                         config' = [config EXCEPT !.last_nickname = PyStr(nickname)]]_vars

\* One attempt failed at its spawn and one at the poll of a process that had
\* exited, and the preferences are those config.json held at startup.
C18_Witness ==
    /\ configFile = FileJson(OldConfig) /\ config = OldConfig
    /\ \E i, j \in Attempts :
          /\ att[i].pc = "Failed" /\ att[i].events = <<"kill">> /\ att[i].pid = 0
          /\ att[j].pc = "Failed" /\ att[j].polled /\ ~att[j].running

(***************************************************************************)
(* The codec's claims.                                                     *)
(***************************************************************************)
\* C7: a read that immediately follows a write that returned success succeeds
\* and returns the document written; so a read, a write of its result and a
\* read again return the same document twice.
C7_WriteThenReadRoundTrip ==
    /\ rd.afterWrite => (rd.went = "ok" /\ rd.value = wr.data)
    /\ rd.roundTrip => (rd.afterWrite /\ rd.value = wr.data)

C7_Witness ==
    /\ rd.afterWrite /\ rd.roundTrip
    /\ rd.value = read_patches(FileCommented).value
    /\ rd.value.keys = << <<"a">>, <<"u">> >>

\* C8: no read observes a partly written file: every step of a write, whether
\* the call ends in success or in failure, leaves the file as it was or
\* holding the complete new document, so that a read at any moment sees the
\* complete previous document or the complete new one.
C8_NoPartialWriteObservable ==
    [][(wr.pc = "open" \/ wr'.pc = "open" \/ wr'.went # wr.went) =>
          patchFile' \in {patchFile, File(Dump(wr'.data, 0))}]_vars

(***************************************************************************)
(* The roster normalizer's claims.                                         *)
(***************************************************************************)
\* The failures the specification names: the transport failed, the status is
\* not 200, the body is no JSON, or the document is neither a list nor an
\* object.
TransportError(response) == response.kind \in {"Timeout", "ConnectionError"}
HttpError(response) == ~TransportError(response) /\ response.status # 200
DecodeError(response) ==
    ~TransportError(response) /\ response.status = 200 /\ response.kind = "NotJson"
MalformedPayload(response) ==
    /\ ~TransportError(response) /\ response.status = 200 /\ response.kind = "Json"
    /\ response.data.k \notin {"arr", "obj"}

\* The entry list a document of a recognised shape presents.
Presented(data) ==
    IF data.k = "obj" /\ HasKey(data, K_query) /\ DictGet(data, K_query, JNull).k = "arr"
    THEN DictGet(data, K_query, JNull).items
    ELSE data.items

\* C9: a roster fetch fails, with no records, exactly when the request failed
\* in transport, the status was not 200, the body was not decodable or the
\* document has no recognised top-level shape; otherwise it succeeds with the
\* records of the presented entries in payload order, an entry that is no
\* object contributing none.
C9_FetchFailsExactlyOnNamedErrors ==
    fetch.called =>
        /\ ~fetch.result.ok <=>
              \/ TransportError(fetch.response)
              \/ HttpError(fetch.response)
              \/ DecodeError(fetch.response)
              \/ MalformedPayload(fetch.response)
        /\ ~fetch.result.ok => fetch.result.servers = <<>>
        /\ fetch.result.ok =>
              /\ fetch.result.servers = NormalizeAll(Presented(fetch.response.data), 1)
              /\ Len(fetch.result.servers) <=
                    Cardinality({j \in 1..Len(Presented(fetch.response.data)) :
                                    Presented(fetch.response.data)[j].k = "obj"})

\* C10: a list of entries fetched as a bare list or as the values of an object
\* gives the result the same list gives under the key "query", and a document
\* of any other top-level shape fails.
C10_PayloadShapesEquivalent ==
    (fetch.called /\ fetch.response.kind = "Json" /\ fetch.response.status = 200) =>
        /\ fetch.response.data.k \in {"arr", "obj"} =>
              fetch.result =
                  get_servers(Response("Json", 200, AsQuery(Presented(fetch.response.data))))
        /\ fetch.response.data.k \notin {"arr", "obj"} => ~fetch.result.ok

\* The value of the first of the names that the entry carries with a truthy
\* value, and the default when it carries none.
RECURSIVE FirstTruthy(_, _, _)
FirstTruthy(server, names, default) ==
    IF names = <<>> THEN default
    ELSE IF HasKey(server, Head(names)) /\ JTruthy(DictGet(server, Head(names), JNull))
         THEN DictGet(server, Head(names), JNull)
         ELSE FirstTruthy(server, Tail(names), default)

\* The positions of the entries that give a record, in payload order.
Kept(entries) ==
    SelectSeq([j \in 1..Len(entries) |-> j], LAMBDA j : ~Skipped(entries[j]))

\* C16: in every record of a fetched roster the number, online, queue and
\* maxplayers are the value of the first alternative name the entry carries
\* with a truthy value, and the default (position in the payload counted from
\* one; 0; 0; 1000) when it carries none.
C16_FirstTruthyAlternativeOrDefault ==
    (fetch.called /\ fetch.result.ok) =>
        LET entries == Presented(fetch.response.data)
            kept == Kept(entries)
        IN  /\ Len(fetch.result.servers) = Len(kept)
            /\ \A r \in 1..Len(kept) :
                  LET server == entries[kept[r]]
                      record == fetch.result.servers[r]
                  IN  /\ record.number =
                            FirstTruthy(server, <<K_number, K_serverNumber, K_id>>,
                                        JNum(kept[r]))
                      /\ record.online =
                            FirstTruthy(server, <<K_online, K_playersOnline>>, JNum(0))
                      /\ record.queue =
                            FirstTruthy(server, <<K_queue, K_queueLength>>, JNum(0))
                      /\ record.maxplayers =
                            FirstTruthy(server, <<K_maxplayers, K_maxPlayers, K_maxonline>>,
                                        JNum(1000))

(***************************************************************************)
(* The codec's claims on reading.                                          *)
(***************************************************************************)
\* A line that is blank, or whose first characters after its leading white
\* space are //.
Dropped(line) == Strip(line) = <<>> \/ StartsAt(LStrip(line), 1, <<"/", "/">>)

\* The lines of a text without the dropped ones, each as it was, in order.
KeptLines(content) ==
    Join(SelectSeq(Split(content, 1, <<>>), LAMBDA line : ~Dropped(line)), 1)

\* C17: for every backing file, the text a read hands to the JSON parser is the
\* file's lines without the blank lines and the lines that begin, after white
\* space, with //; every other line, one with // after content included, is
\* there unchanged and in order.
C17_ReadDropsOnlyCommentAndBlankLines ==
    patchFile.exists => read_patches(patchFile).text = KeptLines(patchFile.content)

C17_Witness ==
    /\ patchFile = FileBlankComment
    /\ rd.went = "ok"
    /\ rd.value = JArr(<<JNum(1), JStr(<<"/", "/", "s">>)>>)
    /\ read_patches(FileTrailing).text = FileTrailing.content

\* What read_patches returns when it fails.
FailureReports == {Report(FALSE, TextNotFound), Report(FALSE, TextParseError)}

\* C19: a read that succeeded never returns a value that a failed read returns,
\* and a write that wrote back the result of the read before it never leaves
\* the file holding a failure report.
C19_ReadFailureIsUnambiguous ==
    /\ rd.went = "ok" => rd.value \notin FailureReports
    /\ (wr.chain = 3 /\ wr.went = "ok") => wr.data \notin FailureReports
    /\ patchFile.exists => patchFile.content \notin {Dump(r, 0) : r \in FailureReports}

====
